---- MODULE Spec2Model ----
(***************************************************************************)
(* CAD Standards Q&A: the query expander and multi-query retriever of      *)
(* app.py, the extractive request flow of app_noapi.py, and the chunker    *)
(* and index rebuild of ingest.py.                                         *)
(*                                                                         *)
(* Strings are sequences of one-character strings.  Distances are cosine   *)
(* distances in hundredths (0.35 is 35).                                   *)
(***************************************************************************)
EXTENDS Integers, Sequences, FiniteSets, TLC

VARIABLES
    \* expand_query run on its own (SpecExpand)
    eq,          \* the question passed to expand_query
    egloss,      \* GLOSS: sequence of [canonical, variants], keys distinct
    expanded,    \* the local list `expanded` before de-duplication
    eout,        \* the returned list
    epc,         \* "idle" | "call" | "done"
    \* ingest.chunk_text (SpecChunk)
    ctext,       \* the page text
    ci,          \* the window start i (0-based)
    chunks,      \* the list `chunks`
    cpc,         \* "idle" | "loop" | "done"
    \* ingest.main (SpecIngest)
    idoc,        \* the source document and what its collaborators do with it
    iprior,      \* the collection as it was before this run
    icoll,       \* the collection a reader of DB_DIR sees now
    itotal,      \* total = len(ids)
    istart,      \* the upsert loop's `start`
    ipc,         \* "idle" | "read" | "embed" | "delete" | "create" | "upsert" | "done" | "failed"
    \* one request against app.py or app_noapi.py (Spec)
    app,         \* "idle" | "app" | "app_noapi": the script serving the request
    rgloss,      \* app.py's GLOSS
    q,           \* the text typed into the input box
    submitted,   \* app.py: whether the form was submitted
    rpc,         \* where the script is: "start" | "retrieve" | "ask" | "embed" | "query" | "render" | "end"
    qlist,       \* app.py: expand_query's result
    qi,          \* app.py: 1-based position of retrieve's loop in query_list
    seen,        \* app.py: retrieve's dict, as <<[key, val]>> in insertion order
    hits,        \* app.py: what retrieve returned
    docs,        \* app_noapi.py: the neighbours the query returned
    candidates,  \* app_noapi.py: the sorted list `candidates`
    top_sents,   \* app_noapi.py: the selected sentences
    cited_pages, \* app_noapi.py: the citation list
    outcome,     \* what the page shows: "none" | "Ignored" | "NotFound" | "Answer" | "NoExtract" | "Exception" | "QueryFailed"
    shown,       \* the snippets rendered, in order
    synth,       \* the answer synthesizer that ran: "none" | "generative" | "extractive"
    embedCalls,  \* calls made to the embedding provider
    indexCalls,  \* calls made to collection.query
    llmCalls,    \* calls made to the chat completion
    failedCall,  \* the collaborator call that raised: "none" | "embed" | "index" | "llm"
    returned     \* every neighbour the index has returned in this request

expandVars == <<eq, egloss, expanded, eout, epc>>
chunkVars == <<ctext, ci, chunks, cpc>>

ingestVars == <<idoc, iprior, icoll, itotal, istart, ipc>>

inputVars == <<app, rgloss, q, submitted>>
retrieveVars == <<qlist, qi, seen, hits>>
extractVars == <<docs, candidates, top_sents, cited_pages>>
pageVars == <<outcome, shown, synth>>
callVars == <<embedCalls, indexCalls, llmCalls, failedCall, returned>>
requestVars == <<inputVars, rpc, retrieveVars, extractVars, pageVars, callVars>>

vars == <<expandVars, chunkVars, ingestVars, requestVars>>

IdleExpand ==
    /\ eq = <<>>
    /\ egloss = <<>>
    /\ expanded = <<>>
    /\ eout = <<>>
    /\ epc = "idle"

NoRequestYet ==
    /\ rpc = "start"
    /\ qlist = <<>>
    /\ qi = 0
    /\ seen = <<>>
    /\ hits = <<>>
    /\ docs = <<>>
    /\ candidates = <<>>
    /\ top_sents = <<>>
    /\ cited_pages = <<>>
    /\ outcome = "none"
    /\ shown = <<>>
    /\ synth = "none"
    /\ embedCalls = 0
    /\ indexCalls = 0
    /\ llmCalls = 0
    /\ failedCall = "none"
    /\ returned = {}

IdleRequest ==
    /\ app = "idle"
    /\ rgloss = <<>>
    /\ q = <<>>
    /\ submitted = FALSE
    /\ NoRequestYet

IdleChunk ==
    /\ ctext = <<>>
    /\ ci = 0
    /\ chunks = <<>>
    /\ cpc = "idle"

NoCollection == [exists |-> FALSE, stale |-> 0, fresh |-> 0]

IdleIngest ==
    /\ idoc = [exists |-> FALSE]
    /\ iprior = NoCollection
    /\ icoll = NoCollection
    /\ itotal = 0
    /\ istart = 0
    /\ ipc = "idle"

-----------------------------------------------------------------------------
(* Python string primitives                                                *)

Min(a, b) == IF a <= b THEN a ELSE b
Max(a, b) == IF a >= b THEN a ELSE b

UpperChars == <<"A","B","C","D","E","F","G","H","I","J","K","L","M",
                "N","O","P","Q","R","S","T","U","V","W","X","Y","Z">>
LowerChars == <<"a","b","c","d","e","f","g","h","i","j","k","l","m",
                "n","o","p","q","r","s","t","u","v","w","x","y","z">>

LowerChar(c) ==
    IF \E i \in DOMAIN UpperChars : UpperChars[i] = c
    THEN LowerChars[CHOOSE i \in DOMAIN UpperChars : UpperChars[i] = c]
    ELSE c

\* str.lower()
lower(s) == [i \in 1..Len(s) |-> LowerChar(s[i])]

\* s[a:b] with 0 <= a, Python slice semantics (0-based, end exclusive, clipped)
Slice(s, a, b) == SubSeq(s, a + 1, Min(b, Len(s)))

\* s.startswith(t)
StartsWith(s, t) == Len(t) <= Len(s) /\ SubSeq(s, 1, Len(t)) = t

\* `t in s` for strings
RECURSIVE Contains(_, _)
Contains(s, t) ==
    IF Len(s) < Len(t) THEN FALSE
    ELSE IF StartsWith(s, t) THEN TRUE
    ELSE Contains(Tail(s), t)

\* s.replace(old, new), old non-empty: every non-overlapping occurrence,
\* scanning from the left
RECURSIVE Replace(_, _, _)
Replace(s, old, new) ==
    IF Len(s) < Len(old) THEN s
    ELSE IF StartsWith(s, old)
         THEN new \o Replace(SubSeq(s, Len(old) + 1, Len(s)), old, new)
         ELSE <<Head(s)>> \o Replace(Tail(s), old, new)

\* `x in list`
InSeq(x, seq) == \E i \in DOMAIN seq : seq[i] = x

\* list(dict.fromkeys(seq)): first occurrences, in order
RECURSIVE FromKeysAcc(_, _)
FromKeysAcc(seq, acc) ==
    IF seq = <<>> THEN acc
    ELSE FromKeysAcc(Tail(seq),
                     IF InSeq(Head(seq), acc) THEN acc ELSE Append(acc, Head(seq)))

\* the list left as it is, duplicates kept
DictFromKeysNoDedup(seq) == seq

DictFromKeys(seq) == FromKeysAcc(seq, <<>>)

-----------------------------------------------------------------------------
(* app.py: expand_query                                                    *)

\* the [:4] of the return statement
QUERY_CAP == 4

\* the variants alone, without the canonical term
TermsOfVariantsOnly(entry) == entry.variants

\* [canonical] + variants
TermsOf(entry) == <<entry.canonical>> \o entry.variants

\* the inner loop: for term in [canonical] + variants
RECURSIVE ExpandTerms(_, _, _)
ExpandTerms(qlow, canonical, terms) ==
    IF terms = <<>> THEN <<>>
    ELSE (IF Contains(qlow, Head(terms))
          THEN <<Replace(qlow, Head(terms), canonical)>>
          ELSE <<>>)
         \o ExpandTerms(qlow, canonical, Tail(terms))

\* the outer loop: for canonical, variants in GLOSS.items()
RECURSIVE ExpandEntries(_, _)
ExpandEntries(qlow, G) ==
    IF G = <<>> THEN <<>>
    ELSE ExpandTerms(qlow, Head(G).canonical, TermsOf(Head(G)))
         \o ExpandEntries(qlow, Tail(G))

\* the list `expanded` when the loops end
ExpandedList(question, G) == <<question>> \o ExpandEntries(lower(question), G)

expand_query(question, G) ==
    Slice(DictFromKeys(ExpandedList(question, G)), 0, QUERY_CAP)

-----------------------------------------------------------------------------
(* Inputs of SpecExpand                                                    *)

MaxQLen == 2

ExpandChars == {"a", "b", "A"}

RECURSIVE StringsUpTo(_, _)
StringsUpTo(chars, n) ==
    IF n = 0 THEN {<<>>}
    ELSE LET shorter == StringsUpTo(chars, n - 1)
         IN  shorter \cup {Append(s, c) : s \in shorter, c \in chars}

ExpandQuestions == StringsUpTo(ExpandChars, MaxQLen)

\* glossary spellings: non-empty, one of them never lowercase
ExpandTermSet == {<<"a">>, <<"b">>, <<"a","b">>, <<"A">>}

ExpandVariantLists ==
    {<<>>} \cup {<<t>> : t \in ExpandTermSet}
           \cup {<<t, u>> : t \in ExpandTermSet, u \in ExpandTermSet}

ExpandEntrySet ==
    {[canonical |-> c, variants |-> v] : c \in ExpandTermSet, v \in ExpandVariantLists}

\* dict keys are distinct
ExpandGlossaries ==
    {<<>>} \cup {<<e>> : e \in ExpandEntrySet}
           \cup {g \in {<<e, f>> : e \in ExpandEntrySet, f \in ExpandEntrySet} :
                      g[1].canonical # g[2].canonical}

InitExpand ==
    /\ eq \in ExpandQuestions
    /\ egloss \in ExpandGlossaries
    /\ expanded = <<>>
    /\ eout = <<>>
    /\ epc = "call"
    /\ IdleChunk
    /\ IdleIngest
    /\ IdleRequest

ExpandQuery ==
    /\ epc = "call"
    /\ expanded' = ExpandedList(eq, egloss)
    /\ eout' = expand_query(eq, egloss)
    /\ epc' = "done"
    /\ UNCHANGED <<eq, egloss>>
    /\ UNCHANGED <<chunkVars, ingestVars, requestVars>>

NextExpand == ExpandQuery

SpecExpand == InitExpand /\ [][NextExpand]_vars

-----------------------------------------------------------------------------
(* Claims about expand_query                                               *)

Range(seq) == {seq[i] : i \in DOMAIN seq}

NoDuplicates(seq) == \A i, j \in DOMAIN seq : i # j => seq[i] # seq[j]

\* t occurs in s at some offset
Occurs(t, s) == \E k \in 0..(Len(s) - Len(t)) : SubSeq(s, k + 1, k + Len(t)) = t

FirstIndex(x, seq) == CHOOSE i \in DOMAIN seq : seq[i] = x /\ \A j \in 1..(i - 1) : seq[j] # x

\* the distinct entries of seq, each at the rank of its first occurrence
FirstOccurrences(seq) ==
    [n \in 1..Cardinality(Range(seq)) |->
        CHOOSE x \in Range(seq) :
            Cardinality({y \in Range(seq) : FirstIndex(y, seq) < FirstIndex(x, seq)}) = n - 1]

\* <<spelling, canonical>> pairs in glossary order; withCanonical says whether
\* the canonical term counts as one of its own spellings
RECURSIVE SpellingPairs(_, _)
SpellingPairs(G, withCanonical) ==
    IF G = <<>> THEN <<>>
    ELSE LET e == Head(G)
             own == IF withCanonical THEN <<e.canonical>> ELSE <<>>
             sp == own \o e.variants
         IN  [i \in 1..Len(sp) |-> <<sp[i], e.canonical>>]
             \o SpellingPairs(Tail(G), withCanonical)

RewritesOf(question, G, withCanonical) ==
    LET qlow == lower(question)
        hit(p) == Occurs(p[1], qlow)
        P == SelectSeq(SpellingPairs(G, withCanonical), hit)
    IN  [i \in 1..Len(P) |-> Replace(qlow, P[i][1], P[i][2])]

\* C3: for a non-empty question expand_query returns 1 to 4 strings, no two
\* equal, the first being the unmodified question; with an empty glossary the
\* result is exactly [question].
C3_ExpandShape ==
    (epc = "done" /\ eq # <<>>) =>
        /\ Len(eout) >= 1
        /\ Len(eout) <= 4
        /\ NoDuplicates(eout)
        /\ eout[1] = eq
        /\ (egloss = <<>> => eout = <<eq>>)

\* a run where both the de-duplication and the cap of 4 took effect
C3_Witness ==
    /\ epc = "done"
    /\ eq # <<>>
    /\ Cardinality(Range(expanded)) > 4
    /\ Len(expanded) > Cardinality(Range(expanded))
    /\ Len(eout) = 4

\* C4 as stated: the rewrites are exactly those of the variant spellings that
\* occur in the lowercased question, and the output is the first 4 entries of
\* the order-preserving de-duplication of [question] followed by them.
C4_VariantRewritesOnly ==
    epc = "done" =>
        eout = Slice(FirstOccurrences(<<eq>> \o RewritesOf(eq, egloss, FALSE)), 0, 4)

\* C4 amended: a rewrite is emitted for every spelling among the canonical
\* term itself followed by its variants that occurs in the lowercased
\* question (every occurrence replaced by the canonical term), in glossary
\* order; the output is the first 4 entries of the order-preserving
\* de-duplication of [question] followed by these rewrites.
C4_TermRewrites ==
    epc = "done" =>
        /\ expanded = <<eq>> \o RewritesOf(eq, egloss, TRUE)
        /\ eout = Slice(FirstOccurrences(<<eq>> \o RewritesOf(eq, egloss, TRUE)), 0, 4)

\* a canonical term and one of its variants both occur in the question, and
\* more than 4 entries were collected
C4_Witness ==
    /\ epc = "done"
    /\ Cardinality(Range(expanded)) > 4
    /\ \E i \in DOMAIN egloss :
          /\ Occurs(egloss[i].canonical, lower(eq))
          /\ \E j \in DOMAIN egloss[i].variants : Occurs(egloss[i].variants[j], lower(eq))

-----------------------------------------------------------------------------
(* ingest.py: chunk_text                                                   *)

CHUNK_MAX_CHARS == 1800
CHUNK_OVERLAP == 120
\* the 400 of `if last_dot > 400`
SENTENCE_CUT_MIN == 400

IsSpace(c) == c \in {" ", "\n", "\t"}

\* str.strip()
strip(s) ==
    IF \A k \in DOMAIN s : IsSpace(s[k]) THEN <<>>
    ELSE LET first == CHOOSE k \in DOMAIN s :
                          ~IsSpace(s[k]) /\ \A j \in 1..(k - 1) : IsSpace(s[j])
             last == CHOOSE k \in DOMAIN s :
                          ~IsSpace(s[k]) /\ \A j \in (k + 1)..Len(s) : IsSpace(s[j])
         IN  SubSeq(s, first, last)

\* part.rfind(". "): 0-based index of the last occurrence, -1 when none
rfind_dot_space(part) ==
    LET at == {k \in 1..(Len(part) - 1) : part[k] = "." /\ part[k + 1] = " "}
    IN  IF at = {} THEN -1
        ELSE (CHOOSE k \in at : \A j \in at : j <= k) - 1

\* the body of the while loop up to part.strip(): the chunk cut at window start i
WindowPart(text, i) ==
    LET part == Slice(text, i, i + CHUNK_MAX_CHARS)
        last_dot == rfind_dot_space(part)
        cut == IF last_dot > SENTENCE_CUT_MIN THEN Slice(part, 0, last_dot + 1) ELSE part
    IN  strip(cut)

\* i += max(1, len(part) - overlap)
WindowAdvance(part) == Max(1, Len(part) - CHUNK_OVERLAP)

\* one iteration of `while i < n`
ChunkIteration ==
    /\ cpc = "loop"
    /\ ci < Len(ctext)
    /\ LET part == WindowPart(ctext, ci)
       IN  /\ chunks' = IF part # <<>> THEN Append(chunks, part) ELSE chunks
           /\ ci' = ci + WindowAdvance(part)
    /\ UNCHANGED <<ctext, cpc>>
    /\ UNCHANGED <<expandVars, ingestVars, requestVars>>

\* the loop condition fails: return chunks
ChunkReturn ==
    /\ cpc = "loop"
    /\ ci >= Len(ctext)
    /\ cpc' = "done"
    /\ UNCHANGED <<ctext, ci, chunks>>
    /\ UNCHANGED <<expandVars, ingestVars, requestVars>>

(* Inputs of SpecChunk: page texts as read_pdf leaves them (whitespace runs  *)
(* collapsed to one space, no leading or trailing space, non-empty).         *)

Rep(c, n) == [k \in 1..n |-> c]

ChunkTexts ==
    { Rep("a", 1),
      Rep("a", 100),
      Rep("a", 121),
      Rep("a", 1800),
      Rep("a", 2000),
      \* a sentence end far enough into the first window to cut there
      Rep("a", 500) \o <<".", " ">> \o Rep("a", 1500),
      \* a sentence end too early in the window to cut there
      Rep("a", 300) \o <<".", " ">> \o Rep("a", 1700),
      \* the second window starts on a space
      Rep("a", 1680) \o <<" ">> \o Rep("a", 500) }

InitChunk ==
    /\ ctext \in ChunkTexts
    /\ ci = 0
    /\ chunks = <<>>
    /\ cpc = "loop"
    /\ IdleExpand
    /\ IdleIngest
    /\ IdleRequest

NextChunk == ChunkIteration \/ ChunkReturn

SpecChunk == InitChunk /\ [][NextChunk]_vars

\* C10: every iteration advances the window start by exactly the length of the
\* chunk just emitted minus the overlap, so that consecutive chunks share the
\* fixed overlap and no window advances by a single character. Stated for
\* the iterations after which the loop goes on.
C10_AdvanceByChunkMinusOverlap ==
    [][(cpc = "loop" /\ ci < Len(ctext) /\ ci' < Len(ctext)) =>
           ci' = ci + Len(WindowPart(ctext, ci)) - CHUNK_OVERLAP]_vars

-----------------------------------------------------------------------------
(* ingest.py: main                                                         *)
(*                                                                         *)
(* A collection is [exists, stale, fresh]: whether the reader finds it,    *)
(* how many chunks of the previous build it holds and how many of this     *)
(* build.  Chunk ids are unique, so each upsert adds end - start records.  *)

UPSERT_BATCH == 1000

\* read_pdf: FileNotFoundError for a missing file; PyMuPDF first, pypdf when
\* PyMuPDF fails or yields no text; a pypdf failure propagates
read_pdf_ok(doc) ==
    /\ doc.exists
    /\ \/ doc.fitz = "ok"
       \/ doc.pypdf = "ok"

\* pages = read_pdf(PDF_PATH); chunks = build_chunks(pages)
IngestRead ==
    /\ ipc = "read"
    /\ IF read_pdf_ok(idoc)
       THEN ipc' = "embed" /\ itotal' = idoc.nchunks
       ELSE ipc' = "failed" /\ itotal' = itotal
    /\ UNCHANGED <<idoc, iprior, icoll, istart>>
    /\ UNCHANGED <<expandVars, chunkVars, requestVars>>

\* SentenceTransformer(EMBED_MODEL), the id loop, model.encode(docs, ...)
IngestEmbed ==
    /\ ipc = "embed"
    /\ ipc' = IF idoc.embedOk THEN "delete" ELSE "failed"
    /\ UNCHANGED <<idoc, iprior, icoll, itotal, istart>>
    /\ UNCHANGED <<expandVars, chunkVars, requestVars>>

\* try: client.delete_collection(COLL) -- the collection is dropped
IngestDelete ==
    /\ ipc = "delete"
    /\ icoll.exists
    /\ icoll' = NoCollection
    /\ ipc' = "create"
    /\ UNCHANGED <<idoc, iprior, itotal, istart>>
    /\ UNCHANGED <<expandVars, chunkVars, requestVars>>

\* except Exception: pass -- delete_collection raised (always so when there is
\* no collection) and main goes on
IngestDeleteRaises ==
    /\ ipc = "delete"
    /\ ipc' = "create"
    /\ UNCHANGED <<idoc, iprior, icoll, itotal, istart>>
    /\ UNCHANGED <<expandVars, chunkVars, requestVars>>

\* coll = client.create_collection(COLL, ...): raises when COLL still exists
IngestCreate ==
    /\ ipc = "create"
    /\ IF icoll.exists
       THEN ipc' = "failed" /\ icoll' = icoll
       ELSE ipc' = "upsert" /\ icoll' = [exists |-> TRUE, stale |-> 0, fresh |-> 0]
    /\ istart' = 0
    /\ UNCHANGED <<idoc, iprior, itotal>>
    /\ UNCHANGED <<expandVars, chunkVars, requestVars>>

\* one pass of `for start in range(0, total, UPSERT_BATCH)`
IngestUpsert ==
    /\ ipc = "upsert"
    /\ istart < itotal
    /\ LET end == Min(istart + UPSERT_BATCH, itotal)
       IN  icoll' = [icoll EXCEPT !.fresh = @ + (end - istart)]
    /\ istart' = istart + UPSERT_BATCH
    /\ UNCHANGED <<idoc, iprior, itotal, ipc>>
    /\ UNCHANGED <<expandVars, chunkVars, requestVars>>

\* coll.upsert raises: main ends with the batches written so far in place
IngestUpsertRaises ==
    /\ ipc = "upsert"
    /\ istart < itotal
    /\ ipc' = "failed"
    /\ UNCHANGED <<idoc, iprior, icoll, itotal, istart>>
    /\ UNCHANGED <<expandVars, chunkVars, requestVars>>

\* the range is exhausted: print("Index built at:", DB_DIR)
IngestDone ==
    /\ ipc = "upsert"
    /\ istart >= itotal
    /\ ipc' = "done"
    /\ UNCHANGED <<idoc, iprior, icoll, itotal, istart>>
    /\ UNCHANGED <<expandVars, chunkVars, requestVars>>

(* Inputs of SpecIngest *)

IngestDocs ==
    [exists : BOOLEAN, fitz : {"ok", "empty", "fail"}, pypdf : {"ok", "fail"},
     nchunks : {1, 999, 1000, 1001, 2500}, embedOk : BOOLEAN]

PriorCollections ==
    {NoCollection} \cup {[exists |-> TRUE, stale |-> n, fresh |-> 0] : n \in {7, 1200}}

InitIngest ==
    /\ idoc \in IngestDocs
    /\ iprior \in PriorCollections
    /\ icoll = iprior
    /\ itotal = 0
    /\ istart = 0
    /\ ipc = "read"
    /\ IdleExpand
    /\ IdleChunk
    /\ IdleRequest

NextIngest ==
    \/ IngestRead
    \/ IngestEmbed
    \/ IngestDelete
    \/ IngestDeleteRaises
    \/ IngestCreate
    \/ IngestUpsert
    \/ IngestUpsertRaises
    \/ IngestDone

SpecIngest == InitIngest /\ [][NextIngest]_vars

\* C8: at every point of a run of main that started with a built collection,
\* failed runs included, the reader sees the complete previous set of chunks or
\* the complete new set, never a missing, empty or partly filled collection.
C8_RebuildAtomic ==
    (ipc # "idle" /\ iprior.exists) =>
        \/ icoll = iprior
        \/ icoll = [exists |-> TRUE, stale |-> 0, fresh |-> idoc.nchunks]

-----------------------------------------------------------------------------
(* app_noapi.py: the extractive helpers                                    *)

SENTENCE_MIN_LEN == 6
SENTENCE_MAX_LEN == 300
\* the 2 of `len(t) > 2`
KEYWORD_MIN_LEN == 2
\* the 40 of `1 + len(toks)/40`
SCORE_LENGTH_NORM == 40
\* the 3 of `candidates[:3]`
TOP_SENTENCES == 3
\* the default n of _truncate
TRUNCATE_LEN == 300

Digits == {"0","1","2","3","4","5","6","7","8","9"}

\* the character class [a-z0-9\-]
IsTokenChar(c) == c \in Range(LowerChars) \cup Digits \cup {"-"}

\* the character class [\.\?\!]
IsSentenceEnd(c) == c \in {".", "?", "!"}

\* the n-th smallest member of a set of numbers
NthOf(S, n) == CHOOSE k \in S : Cardinality({j \in S : j < k}) = n - 1

\* re.findall(r"[a-z0-9\-]+", s): the maximal runs of token characters
FindTokens(s) ==
    LET starts == {k \in DOMAIN s :
                      IsTokenChar(s[k]) /\ (k = 1 \/ ~IsTokenChar(s[k - 1]))}
        endOf(k) == CHOOSE e \in k..Len(s) :
                      /\ \A j \in k..e : IsTokenChar(s[j])
                      /\ (e = Len(s) \/ ~IsTokenChar(s[e + 1]))
    IN  [n \in 1..Cardinality(starts) |->
            SubSeq(s, NthOf(starts, n), endOf(NthOf(starts, n)))]

tokens(s) == FindTokens(lower(s))

\* re.split(r'(?<=[\.\?\!])\s+', s): cut at every whitespace run that follows
\* a sentence-terminal character; the run is dropped
SplitSentences(s) ==
    LET cuts == {k \in DOMAIN s :
                    IsSpace(s[k]) /\ k > 1 /\ IsSentenceEnd(s[k - 1])}
        runEnd(k) == CHOOSE e \in k..Len(s) :
                        /\ \A j \in k..e : IsSpace(s[j])
                        /\ (e = Len(s) \/ ~IsSpace(s[e + 1]))
        from(n) == IF n = 1 THEN 1 ELSE runEnd(NthOf(cuts, n - 1)) + 1
        upto(n) == IF n = Cardinality(cuts) + 1 THEN Len(s) ELSE NthOf(cuts, n) - 1
    IN  [n \in 1..(Cardinality(cuts) + 1) |-> SubSeq(s, from(n), upto(n))]

\* text.replace('\n', ' ')
NewlinesToSpaces(s) == [k \in 1..Len(s) |-> IF s[k] = "\n" THEN " " ELSE s[k]]

\* the filter 6 <= len(s) <= 300
KeepsSentence(s) == SENTENCE_MIN_LEN <= Len(s) /\ Len(s) <= SENTENCE_MAX_LEN

_sentences(text) ==
    LET sents == SplitSentences(strip(NewlinesToSpaces(text)))
        kept == SelectSeq(sents, KeepsSentence)
    IN  [k \in 1..Len(kept) |-> strip(kept[k])]

_STOP == { <<"t", "h", "e">>, <<"a">>, <<"a", "n">>, <<"a", "n", "d">>, <<"o", "r">>,
          <<"o", "f">>, <<"t", "o">>, <<"i", "n">>, <<"o", "n">>, <<"f", "o", "r">>,
          <<"b", "y">>, <<"i", "s">>, <<"a", "r", "e">>, <<"a", "s">>, <<"a", "t">>,
          <<"w", "i", "t", "h">>, <<"f", "r", "o", "m">>, <<"t", "h", "a", "t">>,
          <<"t", "h", "i", "s">>, <<"t", "h", "e", "s", "e">>, <<"t", "h", "o", "s", "e">>,
          <<"i", "t">>, <<"i", "t", "s">> }

_keywords(question) ==
    LET keep(t) == t \notin _STOP /\ Len(t) > KEYWORD_MIN_LEN
    IN  SelectSeq(tokens(question), keep)

\* bag[k]: how often k occurs among toks
CountOf(k, toks) == Cardinality({i \in DOMAIN toks : toks[i] = k})

RECURSIVE SumHits(_, _)
SumHits(keys, toks) ==
    IF keys = <<>> THEN 0 ELSE CountOf(Head(keys), toks) + SumHits(Tail(keys), toks)

\* _score_sentence as the exact fraction num/den of
\* sum(bag[k] for k in keys) / (1 + len(toks)/40); den > 0
_score_sentence(sent, keys) ==
    IF sent = <<>> THEN [num |-> 0, den |-> 1]
    ELSE LET toks == tokens(sent)
         IN  [num |-> SCORE_LENGTH_NORM * SumHits(keys, toks),
              den |-> SCORE_LENGTH_NORM + Len(toks)]

\* comparisons of two scores
ScoreLess(a, b) == a.num * b.den < b.num * a.den
ScorePositive(a) == a.num > 0

_truncate(s) ==
    LET t == NewlinesToSpaces(strip(s))
    IN  IF Len(t) <= TRUNCATE_LEN THEN t
        ELSE Slice(t, 0, TRUNCATE_LEN) \o <<".", ".", ".">>

-----------------------------------------------------------------------------
(* app.py: retrieve                                                        *)

\* app.py's TOP_K and THRESH (0.35, in hundredths)
TOP_K == 7
THRESH == 35
\* the 80 of t[:80]
KEY_PREFIX_LEN == 80
\* hits[:4] is rendered under "See matching snippets"
SNIPPET_HITS == 4

\* m.get("page") / meta.get("page", default)
MetaGet(m, default) == IF "page" \in DOMAIN m THEN m.page ELSE default

\* str(None)
NoneStr == <<"N", "o", "n", "e">>

\* key = (m.get("page"), t[:80])
DedupKey(t, m) == <<MetaGet(m, NoneStr), Slice(t, 0, KEY_PREFIX_LEN)>>

\* no threshold at all
PassesThresholdAlways(d) == TRUE

\* d <= THRESH
PassesThreshold(d) == d <= THRESH

\* `key in seen`, seen[key]
HasKey(dict, key) == \E i \in DOMAIN dict : dict[i].key = key
Lookup(dict, key) == dict[CHOOSE i \in DOMAIN dict : dict[i].key = key].val

\* seen[key] = val: a new key goes last, an old key keeps its place
DictPut(dict, key, val) ==
    IF HasKey(dict, key)
    THEN [i \in DOMAIN dict |->
            IF dict[i].key = key THEN [key |-> key, val |-> val] ELSE dict[i]]
    ELSE Append(dict, [key |-> key, val |-> val])

\* the first occurrence of a key wins
ReplacesOnlyNewKeys(dict, key, d) == ~HasKey(dict, key)

\* key not in seen or d < seen[key]["distance"]
Replaces(dict, key, d) == ~HasKey(dict, key) \/ d < Lookup(dict, key).distance

\* the body of `for t, m, d in zip(docs, metas, dists)`
MergeNeighbour(dict, nb) ==
    IF PassesThreshold(nb.distance)
    THEN LET key == DedupKey(nb.text, nb.meta)
         IN  IF Replaces(dict, key, nb.distance)
             THEN DictPut(dict, key, [text |-> nb.text,
                                      page |-> MetaGet(nb.meta, NoneStr),
                                      distance |-> nb.distance])
             ELSE dict
    ELSE dict

RECURSIVE MergeNeighbours(_, _)
MergeNeighbours(dict, res) ==
    IF res = <<>> THEN dict
    ELSE MergeNeighbours(MergeNeighbour(dict, Head(res)), Tail(res))

\* sorted(seq, key=...) is stable: an item goes after every item with a
\* smaller key and after the earlier items with an equal key
SortedByDistance(seq) ==
    LET rank(i) == Cardinality({j \in DOMAIN seq : seq[j].distance < seq[i].distance})
                   + Cardinality({j \in 1..(i - 1) : seq[j].distance = seq[i].distance})
                   + 1
    IN  [n \in DOMAIN seq |-> seq[CHOOSE i \in DOMAIN seq : rank(i) = n]]

\* sorted(seen.values(), key=lambda x: x["distance"])
RetrieveResult(dict) == SortedByDistance([i \in DOMAIN dict |-> dict[i].val])

-----------------------------------------------------------------------------
(* app_noapi.py: the extractive answer block                               *)

TOP_K_NOAPI == 5

MissingPage == <<"?">>

\* sc >= 0
KeepsCandidateNonNegative(sc) == sc.num >= 0

\* if sc > 0
KeepsCandidate(sc) == ScorePositive(sc)

\* the inner loop over _sentences(text or ""), for one retrieved passage
DocCandidates(doc, keys) ==
    LET sents == _sentences(doc.text)
        all == [k \in DOMAIN sents |->
                   [score |-> _score_sentence(sents[k], keys),
                    sent |-> sents[k],
                    page |-> MetaGet(doc.meta, MissingPage)]]
        keep(c) == KeepsCandidate(c.score)
    IN  SelectSeq(all, keep)

RECURSIVE AllCandidates(_, _)
AllCandidates(ds, keys) ==
    IF ds = <<>> THEN <<>>
    ELSE DocCandidates(Head(ds), keys) \o AllCandidates(Tail(ds), keys)

\* candidates.sort(reverse=True, key=lambda x: x[0]): stable, highest first
SortedByScoreDesc(seq) ==
    LET rank(i) == Cardinality({j \in DOMAIN seq : ScoreLess(seq[i].score, seq[j].score)})
                   + Cardinality({j \in 1..(i - 1) :
                                     /\ ~ScoreLess(seq[i].score, seq[j].score)
                                     /\ ~ScoreLess(seq[j].score, seq[i].score)})
                   + 1
    IN  [n \in DOMAIN seq |-> seq[CHOOSE i \in DOMAIN seq : rank(i) = n]]

\* int(p) succeeds on a page marker made of decimal digits
IsDecimal(p) == p # <<>> /\ \A k \in DOMAIN p : p[k] \in Digits

DigitValue(c) == CHOOSE v \in 0..9 : <<"0","1","2","3","4","5","6","7","8","9">>[v + 1] = c

RECURSIVE IntOf(_)
IntOf(p) == IF p = <<>> THEN 0
            ELSE 10 * IntOf(SubSeq(p, 1, Len(p) - 1)) + DigitValue(p[Len(p)])

\* sorted(set(...)) of numbers
SortedSet(S) == [n \in 1..Cardinality(S) |-> NthOf(S, n)]

\* the pages of candidates[:3] that are not "?" and that int() accepts
CitedPages(top) ==
    SortedSet({IntOf(top[k].page) : k \in {j \in DOMAIN top :
                   top[j].page # MissingPage /\ IsDecimal(top[j].page)}})

\* one line of "Supporting snippets"
Snippet(doc) ==
    [page |-> MetaGet(doc.meta, MissingPage), distance |-> doc.distance,
     text |-> _truncate(doc.text)]

-----------------------------------------------------------------------------
(* Inputs of Spec                                                          *)

\* most neighbours the index returns for one query in the runs explored
MaxNeighbours == 2

SheetGlossary == <<[canonical |-> <<"s", "h", "e", "e", "t">>, variants |-> <<<<"s", "h", "t", "s">>>>]>>

RequestGlossaries == {<<>>, SheetGlossary}

RequestQuestions == {<<>>, <<" ">>, <<"S", "h", "e", "e", "t">>, <<" ", "s", "h", "t", "s">>, <<"t", "h", "e">>}

\* the first 80 characters of the two passages of page 12
SharedPrefix ==
    <<"N", "a", "m", "e", " ", "e", "a", "c", "h", " ", "s", "h", "e", "e", "t", ".", " ">>
    \o <<"S", "h", "e", "e", "t", " ", "n", "a", "m", "e", "s", " ", "u", "s", "e", " ", "s", "h", "e", "e", "t", " ", "n", "u", "m", "b", "e", "r", "s", ".", " ">>
    \o Rep("a", 32)

\* two passages of page 12 that differ only after their first 80 characters,
\* and a passage whose metadata has no page
IndexChunks ==
    { [text |-> SharedPrefix \o <<"x">>, meta |-> [page |-> <<"1", "2">>]],
      [text |-> SharedPrefix \o <<"y">>, meta |-> [page |-> <<"1", "2">>]],
      [text |-> <<"U", "s", "e", " ", "t", "h", "e", " ", "s", "h", "e", "e", "t", " ", "i", "n", "d", "e", "x", "!", " ", "S", "h", "e", "e", "t", " ", "s", "i", "z", "e", "s", " ", "v", "a", "r", "y", ".">>,
       meta |-> [source |-> <<"m">>]] }

Distances == {20, 35, 50}

Neighbours ==
    {[text |-> c.text, meta |-> c.meta, distance |-> d] : c \in IndexChunks, d \in Distances}

\* what collection.query can return: at most n_results neighbours, distinct
\* chunks, nearest first
RECURSIVE NeighbourListsOfLen(_)
NeighbourListsOfLen(n) ==
    IF n = 0 THEN {<<>>}
    ELSE {l \in {Append(l0, nb) : l0 \in NeighbourListsOfLen(n - 1), nb \in Neighbours} :
             \A i, j \in DOMAIN l :
                 i < j => /\ l[i].distance <= l[j].distance
                          /\ <<l[i].text, l[i].meta>> # <<l[j].text, l[j].meta>>}

NeighbourLists(n_results) ==
    UNION {NeighbourListsOfLen(n) : n \in 0..Min(MaxNeighbours, n_results)}

\* n_results=TOP_K in app.py and in app_noapi.py
AppNeighbourLists == NeighbourLists(TOP_K)
NoapiNeighbourLists == NeighbourLists(TOP_K_NOAPI)

-----------------------------------------------------------------------------
(* app.py: one run of the script after the form is submitted               *)

\* if submitted and q.strip(): qlist = expand_query(q.strip())
AppSubmit ==
    /\ app = "app"
    /\ rpc = "start"
    /\ IF submitted /\ strip(q) # <<>>
       THEN /\ qlist' = expand_query(strip(q), rgloss)
            /\ qi' = 1
            /\ rpc' = "retrieve"
            /\ outcome' = outcome
       ELSE /\ rpc' = "end"
            /\ outcome' = "Ignored"
            /\ UNCHANGED <<qlist, qi>>
    /\ UNCHANGED <<inputVars, seen, hits, extractVars, shown, synth, callVars>>
    /\ UNCHANGED <<expandVars, chunkVars, ingestVars>>

\* one pass of `for q in query_list`: embed, collection.query, merge
RetrieveQuery ==
    /\ app = "app"
    /\ rpc = "retrieve"
    /\ qi <= Len(qlist)
    /\ \E res \in AppNeighbourLists :
          /\ seen' = MergeNeighbours(seen, res)
          /\ returned' = returned \cup Range(res)
    /\ qi' = qi + 1
    /\ embedCalls' = embedCalls + 1
    /\ indexCalls' = indexCalls + 1
    /\ UNCHANGED <<inputVars, rpc, qlist, hits, extractVars, pageVars, llmCalls, failedCall>>
    /\ UNCHANGED <<expandVars, chunkVars, ingestVars>>

\* embed([q]) raises inside retrieve: nothing catches it, the run ends with
\* the exception on the page
RetrieveEmbedRaises ==
    /\ app = "app"
    /\ rpc = "retrieve"
    /\ qi <= Len(qlist)
    /\ embedCalls' = embedCalls + 1
    /\ failedCall' = "embed"
    /\ outcome' = "Exception"
    /\ rpc' = "end"
    /\ UNCHANGED <<inputVars, retrieveVars, extractVars, shown, synth,
                   indexCalls, llmCalls, returned>>
    /\ UNCHANGED <<expandVars, chunkVars, ingestVars>>

\* collection.query raises and retrieve goes on to the next query
RetrieveQueryRaisesSwallowed ==
    /\ app = "app"
    /\ rpc = "retrieve"
    /\ qi <= Len(qlist)
    /\ embedCalls' = embedCalls + 1
    /\ indexCalls' = indexCalls + 1
    /\ failedCall' = "index"
    /\ qi' = qi + 1
    /\ UNCHANGED <<inputVars, rpc, qlist, seen, hits, extractVars, pageVars,
                   llmCalls, returned>>
    /\ UNCHANGED <<expandVars, chunkVars, ingestVars>>

\* collection.query raises inside retrieve: nothing catches it
RetrieveQueryRaises ==
    /\ app = "app"
    /\ rpc = "retrieve"
    /\ qi <= Len(qlist)
    /\ embedCalls' = embedCalls + 1
    /\ indexCalls' = indexCalls + 1
    /\ failedCall' = "index"
    /\ outcome' = "Exception"
    /\ rpc' = "end"
    /\ UNCHANGED <<inputVars, retrieveVars, extractVars, shown, synth,
                   llmCalls, returned>>
    /\ UNCHANGED <<expandVars, chunkVars, ingestVars>>

\* retrieve returns; `if not hits: st.warning("Not found ...")`
RetrieveReturn ==
    /\ app = "app"
    /\ rpc = "retrieve"
    /\ qi > Len(qlist)
    /\ hits' = RetrieveResult(seen)
    /\ IF hits' = <<>>
       THEN rpc' = "end" /\ outcome' = "NotFound"
       ELSE rpc' = "ask" /\ outcome' = outcome
    /\ UNCHANGED <<inputVars, qlist, qi, seen, extractVars, shown, synth, callVars>>
    /\ UNCHANGED <<expandVars, chunkVars, ingestVars>>

\* answer = ask_llm(q, hits[:6]); the reply either holds the refusal sentence
\* or is rendered with hits[:4] as matching snippets
AskLlm ==
    /\ app = "app"
    /\ rpc = "ask"
    /\ llmCalls' = llmCalls + 1
    /\ synth' = "generative"
    /\ \E refusal \in BOOLEAN :
          IF refusal
          THEN outcome' = "NotFound" /\ shown' = shown
          ELSE outcome' = "Answer" /\ shown' = Slice(hits, 0, SNIPPET_HITS)
    /\ rpc' = "end"
    /\ UNCHANGED <<inputVars, retrieveVars, extractVars,
                   embedCalls, indexCalls, failedCall, returned>>
    /\ UNCHANGED <<expandVars, chunkVars, ingestVars>>

\* client.chat.completions.create raises inside ask_llm: nothing catches it
AskLlmRaises ==
    /\ app = "app"
    /\ rpc = "ask"
    /\ llmCalls' = llmCalls + 1
    /\ synth' = "generative"
    /\ failedCall' = "llm"
    /\ outcome' = "Exception"
    /\ rpc' = "end"
    /\ UNCHANGED <<inputVars, retrieveVars, extractVars, shown,
                   embedCalls, indexCalls, returned>>
    /\ UNCHANGED <<expandVars, chunkVars, ingestVars>>

-----------------------------------------------------------------------------
(* app_noapi.py: one run of the script with `query` typed in               *)

\* if query:
NoapiInput ==
    /\ app = "app_noapi"
    /\ rpc = "start"
    /\ IF q # <<>>
       THEN rpc' = "embed" /\ outcome' = outcome
       ELSE rpc' = "end" /\ outcome' = "Ignored"
    /\ UNCHANGED <<inputVars, retrieveVars, extractVars, shown, synth, callVars>>
    /\ UNCHANGED <<expandVars, chunkVars, ingestVars>>

\* q_mat = embedder.encode([query], ...)
NoapiEmbed ==
    /\ app = "app_noapi"
    /\ rpc = "embed"
    /\ embedCalls' = embedCalls + 1
    /\ rpc' = "query"
    /\ UNCHANGED <<inputVars, retrieveVars, extractVars, pageVars,
                   indexCalls, llmCalls, failedCall, returned>>
    /\ UNCHANGED <<expandVars, chunkVars, ingestVars>>

\* embedder.encode raises: it is outside the try block
NoapiEmbedRaises ==
    /\ app = "app_noapi"
    /\ rpc = "embed"
    /\ embedCalls' = embedCalls + 1
    /\ failedCall' = "embed"
    /\ outcome' = "Exception"
    /\ rpc' = "end"
    /\ UNCHANGED <<inputVars, retrieveVars, extractVars, shown, synth,
                   indexCalls, llmCalls, returned>>
    /\ UNCHANGED <<expandVars, chunkVars, ingestVars>>

\* res = collection.query(...); docs, metas, dists
NoapiQuery ==
    /\ app = "app_noapi"
    /\ rpc = "query"
    /\ indexCalls' = indexCalls + 1
    /\ \E res \in NoapiNeighbourLists :
          /\ docs' = res
          /\ returned' = returned \cup Range(res)
    /\ rpc' = "render"
    /\ UNCHANGED <<inputVars, retrieveVars, candidates, top_sents, cited_pages,
                   pageVars, embedCalls, llmCalls, failedCall>>
    /\ UNCHANGED <<expandVars, chunkVars, ingestVars>>

\* except Exception as e: st.error(f"Query failed: {e}"); st.stop()
NoapiQueryRaises ==
    /\ app = "app_noapi"
    /\ rpc = "query"
    /\ indexCalls' = indexCalls + 1
    /\ failedCall' = "index"
    /\ outcome' = "QueryFailed"
    /\ rpc' = "end"
    /\ UNCHANGED <<inputVars, retrieveVars, extractVars, shown, synth,
                   embedCalls, llmCalls, returned>>
    /\ UNCHANGED <<expandVars, chunkVars, ingestVars>>

\* st.subheader(...) to the end of the script
NoapiRender ==
    /\ app = "app_noapi"
    /\ rpc = "render"
    /\ IF docs = <<>>
       THEN /\ outcome' = "NotFound"
            /\ UNCHANGED <<candidates, top_sents, cited_pages, shown, synth>>
       ELSE LET sorted == SortedByScoreDesc(AllCandidates(docs, _keywords(q)))
                top == Slice(sorted, 0, TOP_SENTENCES)
            IN  /\ candidates' = sorted
                /\ top_sents' = [k \in DOMAIN top |-> top[k].sent]
                /\ cited_pages' = CitedPages(top)
                /\ outcome' = IF top # <<>> THEN "Answer" ELSE "NoExtract"
                /\ shown' = [k \in DOMAIN docs |-> Snippet(docs[k])]
                /\ synth' = "extractive"
    /\ rpc' = "end"
    /\ UNCHANGED <<inputVars, retrieveVars, docs, callVars>>
    /\ UNCHANGED <<expandVars, chunkVars, ingestVars>>

-----------------------------------------------------------------------------
(* The request specification                                               *)

Init ==
    /\ app \in {"app", "app_noapi"}
    /\ rgloss \in (IF app = "app" THEN RequestGlossaries ELSE {<<>>})
    /\ q \in RequestQuestions
    /\ submitted \in (IF app = "app" THEN BOOLEAN ELSE {TRUE})
    /\ NoRequestYet
    /\ IdleExpand
    /\ IdleChunk
    /\ IdleIngest

Next ==
    \/ AppSubmit
    \/ RetrieveQuery
    \/ RetrieveEmbedRaises
    \/ RetrieveQueryRaises
    \/ RetrieveReturn
    \/ AskLlm
    \/ AskLlmRaises
    \/ NoapiInput
    \/ NoapiEmbed
    \/ NoapiEmbedRaises
    \/ NoapiQuery
    \/ NoapiQueryRaises
    \/ NoapiRender

Spec == Init /\ [][Next]_vars

-----------------------------------------------------------------------------
(* Claims about the request flows                                          *)

\* the dedup key of a neighbour: its page and the first 80 characters of its text
KeyOfNeighbour(nb) ==
    <<IF "page" \in DOMAIN nb.meta THEN nb.meta.page ELSE NoneStr,
      SubSeq(nb.text, 1, Min(80, Len(nb.text)))>>

\* the occurrences within the threshold among all neighbours returned so far
WithinThreshold == {nb \in returned : nb.distance <= THRESH}

\* C1: after retrieve has processed any queries, the merged candidate set holds
\* at most one entry per dedup key, and the distance stored for a key is the
\* minimum over the threshold-passing occurrences of that key seen so far.
C1_OneEntryPerKeyAtMinimum ==
    app = "app" =>
        /\ \A i, j \in DOMAIN seen : i # j => seen[i].key # seen[j].key
        /\ {seen[i].key : i \in DOMAIN seen} = {KeyOfNeighbour(nb) : nb \in WithinThreshold}
        /\ \A i \in DOMAIN seen :
              LET same == {nb \in WithinThreshold : KeyOfNeighbour(nb) = seen[i].key}
              IN  /\ \E nb \in same : nb.distance = seen[i].val.distance
                  /\ \A nb \in same : seen[i].val.distance <= nb.distance

\* retrieve has run both queries and met one key at two distances within the
\* threshold, under two different texts
C1_Witness ==
    /\ app = "app"
    /\ Len(qlist) = 2
    /\ qi > Len(qlist)
    /\ Len(seen) >= 2
    /\ \E a, b \in WithinThreshold :
          /\ KeyOfNeighbour(a) = KeyOfNeighbour(b)
          /\ a.text # b.text
          /\ a.distance < b.distance

\* C2: what retrieve returns holds only candidates at distance <= THRESH, each
\* one a neighbour the index returned, and is non-decreasing in distance.
C2_HitsWithinThresholdSorted ==
    /\ \A i \in DOMAIN hits :
          /\ hits[i].distance <= THRESH
          /\ \E nb \in returned : nb.text = hits[i].text /\ nb.distance = hits[i].distance
    /\ \A i, j \in DOMAIN hits : i < j => hits[i].distance <= hits[j].distance

\* retrieve returned two hits at different distances, found in the other
\* order, while the index had also returned a neighbour beyond the threshold
C2_Witness ==
    /\ app = "app"
    /\ rpc \in {"ask", "end"}
    /\ Len(hits) >= 2
    /\ hits[1].distance < hits[2].distance
    /\ seen[1].val.distance > seen[2].val.distance
    /\ \E nb \in returned : nb.distance > THRESH

\* C5: an empty or whitespace-only question is rejected before retrieval: no
\* call to the embedding provider and none to the vector index is made for
\* it, in app.py and in app_noapi.py.
C5_BlankQuestionNeverRetrieves ==
    strip(q) = <<>> => (embedCalls = 0 /\ indexCalls = 0)

\* C6: when retrieval for a non-blank question succeeds and no chunk lies
\* within the threshold, the request ends NotFound, no answer synthesizer has
\* run and no passage beyond the threshold is shown, in app.py and in
\* app_noapi.py.
C6_NoMatchEndsNotFound ==
    (/\ rpc = "end"
     /\ strip(q) # <<>>
     /\ failedCall = "none"
     /\ indexCalls > 0
     /\ \A nb \in returned : nb.distance > THRESH)
    => /\ outcome = "NotFound"
       /\ synth = "none"
       /\ \A k \in DOMAIN shown : shown[k].distance <= THRESH

FailureOutcomes == {"Exception", "QueryFailed"}

\* C7: once an embedding, index or generative call has failed, the request is
\* over in a failure outcome, which is neither NotFound nor an answer and shows
\* no snippet or sentence, whatever the other variants returned; and a failure
\* outcome is shown only after such a failure.
C7_FailureEndsInFailureOutcome ==
    /\ failedCall # "none" =>
          /\ rpc = "end"
          /\ outcome \in FailureOutcomes
          /\ shown = <<>>
          /\ top_sents = <<>>
    /\ outcome \in FailureOutcomes => failedCall # "none"

\* the index call for the second variant failed after the first variant had
\* brought candidates within the threshold
C7_Witness ==
    /\ app = "app"
    /\ failedCall = "index"
    /\ qi = 2
    /\ seen # <<>>
    /\ outcome = "Exception"

\* every sentence of every retrieved passage, by passage and position
AllScored == UNION {{[doc |-> d, pos |-> k] : k \in DOMAIN _sentences(docs[d].text)} : d \in DOMAIN docs}

ScoreAt(o) == _score_sentence(_sentences(docs[o.doc].text)[o.pos], _keywords(q))
SentAt(o) == _sentences(docs[o.doc].text)[o.pos]

PositiveScored == {o \in AllScored : ScoreAt(o).num > 0}

ScoreOfSent(s) == _score_sentence(s, _keywords(q))

\* C9: the extractive synthesizer selects at most 3 sentences, each of
\* strictly positive score, in non-increasing score order, and no sentence
\* left out scores strictly higher than a selected one; when no sentence
\* scores above zero the page reports that no concise answer could be
\* extracted, shows the raw passages and gives no citation list.
C9_TopSentences ==
    synth = "extractive" =>
        /\ Len(top_sents) <= 3
        /\ Len(top_sents) = Min(3, Cardinality(PositiveScored))
        /\ \A i \in DOMAIN top_sents :
              /\ \E o \in AllScored : SentAt(o) = top_sents[i]
              /\ ScoreOfSent(top_sents[i]).num > 0
        /\ \A i, j \in DOMAIN top_sents :
              i < j => ~ScoreLess(ScoreOfSent(top_sents[i]), ScoreOfSent(top_sents[j]))
        /\ \A o \in AllScored :
              SentAt(o) \notin Range(top_sents) =>
                  \A i \in DOMAIN top_sents : ~ScoreLess(ScoreOfSent(top_sents[i]), ScoreAt(o))
        /\ IF PositiveScored = {}
           THEN /\ outcome = "NoExtract"
                /\ cited_pages = <<>>
                /\ Len(shown) = Len(docs)
                /\ \A k \in DOMAIN docs :
                      /\ shown[k].text = _truncate(docs[k].text)
                      /\ shown[k].distance = docs[k].distance
           ELSE outcome = "Answer"

\* more than 3 sentences score above zero, not all alike, and one scores zero
C9_Witness ==
    /\ synth = "extractive"
    /\ Cardinality(PositiveScored) > 3
    /\ Len(top_sents) = 3
    /\ ScoreLess(ScoreOfSent(top_sents[3]), ScoreOfSent(top_sents[1]))
    /\ \E o \in AllScored : ScoreAt(o).num = 0
    /\ \E o \in PositiveScored : SentAt(o) \notin Range(top_sents)

====
